---- MODULE Spec2Model ----
(***************************************************************************)
(* Model of cfm_helpers.py: the storage-transparent resource layer         *)
(* (S3Initializer, S3Reader, CsvReader, S3Writer, CsvWriter) and the       *)
(* line-oriented configuration parser (get_useful_lines, get_config_value).*)
(*                                                                         *)
(* Python strings are sequences of one-character strings, so that split,   *)
(* strip and concatenation are computed rather than assumed.               *)
(***************************************************************************)
EXTENDS Integers, Sequences, FiniteSets, TLC

VARIABLES
    env,        \* os.environ['VCAP_SERVICES'] and the file aws.cfg (fixed by Init)
    fs,         \* local filesystem: the target name and <name>.sav
    remote,     \* the object stored under the target name in the bucket
    obj,        \* the component instance under construction / in a with-scope
    log,        \* I/O operations issued by the current instance, in order
    proc,       \* "running", or how the process ended
    pre,        \* the local target as it was when the current scope was entered
    cfgFile,    \* get_config_value: the configuration file
    cfgArgs,    \* get_config_value: config_key and suppress_key_not_found
    cfgOut,     \* get_config_value: what the call produced
    call        \* the last call on the CSV layer: its arguments and outcome

vars == <<env, fs, remote, obj, log, proc, pre, cfgFile, cfgArgs, cfgOut, call>>

resVars == <<env, fs, remote, obj, log, proc, pre>>
cfgVars == <<cfgFile, cfgArgs, cfgOut>>
csvVars == <<call>>

----------------------------------------------------------------------------
(* Bounds *)

MaxWrites == 1      \* records written through an S3Writer handle per scope
MaxValues == 1      \* values added to a CsvWriter line
MaxLines == 2       \* lines completed in a CsvWriter
MaxCfgLines == 3    \* lines of a configuration file
MaxCsvLines == 3    \* lines of a CSV file, the header included
MaxColumns == 2     \* column specifications given to generate_csv
MaxGenRecords == 2  \* records given to generate_csv
MaxPages == 2       \* pages of one listing of the bucket
MaxRequests == 2    \* requests a FileManager sends to the bucket

----------------------------------------------------------------------------
(* Python str methods on sequences of characters *)

IsWs(c) == c \in {" ", "\t"}

RECURSIVE LStrip(_)
LStrip(s) ==
    IF s # <<>> /\ IsWs(Head(s)) THEN LStrip(Tail(s)) ELSE s

RECURSIVE RStrip(_)
RStrip(s) ==
    IF s # <<>> /\ IsWs(s[Len(s)]) THEN RStrip(SubSeq(s, 1, Len(s) - 1)) ELSE s

Strip(s) == RStrip(LStrip(s))

Contains(s, c) == \E i \in 1..Len(s) : s[i] = c

StartsWith(s, c) == s # <<>> /\ s[1] = c

\* index of the first occurrence of c in s, 0 when there is none
Find(s, c) ==
    IF Contains(s, c)
    THEN CHOOSE i \in 1..Len(s) : s[i] = c /\ \A j \in 1..(i - 1) : s[j] # c
    ELSE 0

\* s.split(c)
RECURSIVE Split(_, _)
Split(s, c) ==
    IF Find(s, c) = 0
    THEN <<s>>
    ELSE <<SubSeq(s, 1, Find(s, c) - 1)>>
             \o Split(SubSeq(s, Find(s, c) + 1, Len(s)), c)

\* s.split(c, 1)
SplitOnce(s, c) ==
    IF Find(s, c) = 0
    THEN <<s>>
    ELSE <<SubSeq(s, 1, Find(s, c) - 1), SubSeq(s, Find(s, c) + 1, Len(s))>>

----------------------------------------------------------------------------
(* Python values and dicts *)

Str(s) == [t |-> "str", v |-> s]
List(l) == [t |-> "list", v |-> l]
Zero == [t |-> "zero", v |-> <<>>]

\* a dict is a set of [k, v] entries with at most one entry per key
DictHas(d, k) == \E e \in d : e.k = k
DictGet(d, k) == (CHOOSE e \in d : e.k = k).v
DictSet(d, k, v) == {e \in d : e.k # k} \cup {[k |-> k, v |-> v]}

----------------------------------------------------------------------------
(* Outcomes of a call: it returns, or the process ends *)

Returned(v) == [outcome |-> "return", value |-> v]
Exit0 == [outcome |-> "exit0", value |-> Zero]     \* exit()
Exit1 == [outcome |-> "exit1", value |-> Zero]     \* exit(1)
Raised == [outcome |-> "raised", value |-> Zero]   \* uncaught exception

\* results[config_key], the sentinel 0, or exit()
ConfigLookup(results, config_key, suppress_key_not_found) ==
    IF DictHas(results, config_key)
    THEN Returned(DictGet(results, config_key))
    ELSE IF suppress_key_not_found THEN Returned(Zero) ELSE Exit0

----------------------------------------------------------------------------
(* The environment: VCAP_SERVICES and aws.cfg *)

\* credentials of the 'aws-s3' entry of VCAP_SERVICES
EnvAccessKeyId == Str(<<"A">>)
EnvBucket == Str(<<"B">>)
EnvSecretAccessKey == Str(<<"S">>)
EnvArns == { <<"r", "/", "k">>, <<"r", "/", "m", "/", "k">>, <<"r">> }

\* aws.cfg as get_config_value parses it (its results dict)
CfgFull ==
    { [k |-> "access_key_id", v |-> Str(<<"a">>)],
      [k |-> "secret_access_key", v |-> Str(<<"s">>)],
      [k |-> "bucket", v |-> Str(<<"b">>)],
      [k |-> "kms_key_arn", v |-> Str(<<"r", "/", "q">>)] }
CfgFiles ==
    { CfgFull,
      {e \in CfgFull : e.k # "kms_key_arn"},
      {e \in CfgFull : e.k # "bucket"},
      {e \in CfgFull : e.k # "access_key_id"} }

Envs ==
    [ vcap : {"absent", "nos3"}, hasArn : {FALSE}, arn : {<<>>},
      cfgExists : {FALSE}, cfg : {{}} ]
    \cup [ vcap : {"absent", "nos3"}, hasArn : {FALSE}, arn : {<<>>},
           cfgExists : {TRUE}, cfg : CfgFiles ]
    \cup [ vcap : {"s3"}, hasArn : {FALSE}, arn : {<<>>},
           cfgExists : {FALSE}, cfg : {{}} ]
    \cup [ vcap : {"s3"}, hasArn : {TRUE}, arn : EnvArns,
           cfgExists : {FALSE}, cfg : {{}} ]
    \cup [ vcap : {"s3"}, hasArn : BOOLEAN, arn : {<<"r", "/", "k">>},
           cfgExists : {TRUE}, cfg : {CfgFull} ]

\* os.environ.get('VCAP_SERVICES') is not None
VcapPresent(e) == e.vcap # "absent"

\* get_service_from_vcap_services('aws-s3'): the entry, or exit()
GetServiceFromVcapServices(e) ==
    IF e.vcap = "s3" THEN Returned(Zero) ELSE Exit0

----------------------------------------------------------------------------
(* S3Initializer.__init__ *)

NoAttrs ==
    [ outcome |-> "return", attrs |-> {},
      access_key_id |-> Str(<<>>), bucket |-> Str(<<>>),
      secret_access_key |-> Str(<<>>), kms_key_id |-> Str(<<>>) ]

Ended(outcome) == [NoAttrs EXCEPT !.outcome = outcome]

CredAttrs == {"access_key_id", "bucket", "secret_access_key", "kms_key_id"}

\* the branch taken when VCAP_SERVICES is set
InitFromVcap(e) ==
    IF GetServiceFromVcapServices(e).outcome # "return"
    THEN Ended(GetServiceFromVcapServices(e).outcome)
    ELSE IF e.hasArn
         THEN IF Len(Split(e.arn, "/")) < 2
              THEN Ended("raised")          \* words[1]: IndexError
              ELSE [ outcome |-> "return", attrs |-> CredAttrs,
                     access_key_id |-> EnvAccessKeyId, bucket |-> EnvBucket,
                     secret_access_key |-> EnvSecretAccessKey,
                     kms_key_id |-> Str(Split(e.arn, "/")[2]) ]
         ELSE [ outcome |-> "return", attrs |-> CredAttrs,
                access_key_id |-> EnvAccessKeyId, bucket |-> EnvBucket,
                secret_access_key |-> EnvSecretAccessKey,
                kms_key_id |-> Str(<<>>) ]

\* the attribute of aws.cfg that S3Initializer reads into kms_key_id
KmsConfigKey == "bucket"

\* the branch taken when aws.cfg is a file
InitFromCfg(e) ==
    LET a == ConfigLookup(e.cfg, "access_key_id", FALSE)
        s == ConfigLookup(e.cfg, "secret_access_key", FALSE)
        b == ConfigLookup(e.cfg, "bucket", FALSE)
        k == ConfigLookup(e.cfg, KmsConfigKey, TRUE)
    IN  IF a.outcome # "return" THEN Ended(a.outcome)
        ELSE IF s.outcome # "return" THEN Ended(s.outcome)
        ELSE IF b.outcome # "return" THEN Ended(b.outcome)
        ELSE [ outcome |-> "return", attrs |-> CredAttrs,
               access_key_id |-> a.value, bucket |-> b.value,
               secret_access_key |-> s.value, kms_key_id |-> k.value ]

\* S3Initializer that looks at aws.cfg before VCAP_SERVICES
S3InitializerCfgFirst(e, s3_only) ==
    IF e.cfgExists THEN InitFromCfg(e)
    ELSE IF VcapPresent(e) THEN InitFromVcap(e)
    ELSE IF s3_only THEN Ended("exit1")
    ELSE NoAttrs

S3Initializer(e, s3_only) ==
    IF VcapPresent(e) THEN InitFromVcap(e)
    ELSE IF e.cfgExists THEN InitFromCfg(e)
    ELSE IF s3_only THEN Ended("exit1")
    ELSE NoAttrs

----------------------------------------------------------------------------
(* Local files, the remote object, the component instance *)

F == "f"            \* self.filename
Sav == "f.sav"      \* self.filename + '.sav'

Absent == [kind |-> "absent", data |-> <<>>]
Dir == [kind |-> "dir", data |-> <<>>]
File(lines) == [kind |-> "file", data |-> lines]

OldData == << <<"h", ",", "g">>, <<"o">> >>    \* header line h,g and one record
RemoteData == << <<"h">>, <<"n">> >>

\* os.path.exists / os.path.isfile
Exists(f) == f.kind # "absent"
IsFile(f) == f.kind = "file"

NoObj ==
    [ kind |-> "none", pc |-> "none", s3_only |-> FALSE,
      suppress_file_not_found |-> FALSE, attrs |-> {},
      access_key_id |-> Str(<<>>), bucket |-> Str(<<>>),
      secret_access_key |-> Str(<<>>), kms_key_id |-> Str(<<>>),
      file |-> "unset", ret |-> "none", exc |-> FALSE, written |-> 0,
      header |-> <<>>, hasHeader |-> FALSE, current_line |-> <<>>,
      lines |-> <<>>, column_names |-> <<>>, column_index |-> {},
      cursor |-> 0, words |-> <<>>, gens |-> <<>> ]

HasAttr(o, name) == name \in o.attrs

Ev(op, res, sse, key) == [op |-> op, res |-> res, sse |-> sse, key |-> key]

\* the state a handler works on
Cur ==
    [ fs |-> fs, remote |-> remote, obj |-> obj, log |-> log,
      proc |-> proc, pre |-> pre ]

Apply(st) ==
    /\ fs' = st.fs
    /\ remote' = st.remote
    /\ obj' = st.obj
    /\ log' = st.log
    /\ proc' = st.proc
    /\ pre' = st.pre

Logged(st, e) == [st EXCEPT !.log = Append(st.log, e)]
Ending(st, how) == [st EXCEPT !.proc = how]

\* the constructor common to every component: attributes, or the process ends
Constructed(st, kind, s3_only, suppress, init) ==
    IF init.outcome # "return"
    THEN [st EXCEPT !.proc = init.outcome,
                    !.obj = [NoObj EXCEPT !.kind = kind, !.pc = "construct_failed",
                                          !.s3_only = s3_only,
                                          !.suppress_file_not_found = suppress]]
    ELSE [st EXCEPT !.obj =
            [NoObj EXCEPT !.kind = kind, !.pc = "constructed",
                          !.s3_only = s3_only,
                          !.suppress_file_not_found = suppress,
                          !.attrs = init.attrs,
                          !.access_key_id = init.access_key_id,
                          !.bucket = init.bucket,
                          !.secret_access_key = init.secret_access_key,
                          !.kms_key_id = init.kms_key_id]]

----------------------------------------------------------------------------
(* Remote object-store operations. `ok` is whether the store answers       *)
(* (FALSE: a failure other than not-found).                                *)

\* s3_client.head_object: found, ClientError 404, or another ClientError
HeadObject(st, ok) ==
    Logged(st, Ev("head",
                  IF ~ok THEN "error"
                  ELSE IF IsFile(st.remote) THEN "found" ELSE "404",
                  FALSE, <<>>))

LastRes(st) == st.log[Len(st.log)].res

\* s3_client.download_file(bucket, filename, filename)
DownloadFile(st, ok) ==
    IF ok /\ IsFile(st.remote) /\ st.fs[F].kind # "dir"
    THEN [Logged(st, Ev("download", "ok", FALSE, <<>>))
              EXCEPT !.fs = [st.fs EXCEPT ![F] = st.remote]]
    ELSE Ending(Logged(st, Ev("download", "error", FALSE, <<>>)), "raised")

\* s3_client.upload_file(filename, bucket, filename, ExtraArgs=...)
UploadFile(st, ok, sse, key) ==
    IF ok
    THEN [Logged(st, Ev("upload", "ok", sse, key)) EXCEPT !.remote = st.fs[F]]
    ELSE Ending(Logged(st, Ev("upload", "error", sse, key)), "raised")

\* open(filename, 'r')
OpenRead(st, ret) ==
    IF IsFile(st.fs[F])
    THEN [Logged(st, Ev("open", "ok", FALSE, <<>>))
              EXCEPT !.obj.file = "open", !.obj.ret = ret, !.obj.pc = "entered"]
    ELSE [Ending(st, "raised") EXCEPT !.obj.pc = "enter_failed"]

\* open(filename, 'w')
OpenWrite(st, ret) ==
    IF st.fs[F].kind = "dir"
    THEN [Ending(st, "raised") EXCEPT !.obj.pc = "enter_failed"]
    ELSE [Logged(st, Ev("truncate", "ok", FALSE, <<>>))
              EXCEPT !.fs = [st.fs EXCEPT ![F] = File(<<>>)],
                     !.obj.file = "open", !.obj.ret = ret, !.obj.pc = "entered"]

\* self.file.close()
CloseFile(st) ==
    [Logged(st, Ev("close", "ok", FALSE, <<>>)) EXCEPT !.obj.file = "closed"]

----------------------------------------------------------------------------
(* Leaving a with-scope: __exit__ has run; an exception raised in the body *)
(* then propagates (no __exit__ here returns a true value).                *)

\* leaving a scope that also forgets the bucket
LeftUnbound(st, exc) ==
    [st EXCEPT !.obj.pc = "exited", !.obj.exc = exc,
               !.obj.attrs = st.obj.attrs \ {"bucket"},
               !.proc = IF st.proc = "running" /\ exc THEN "raised" ELSE st.proc]

Left(st, exc) ==
    [st EXCEPT !.obj.pc = "exited", !.obj.exc = exc,
               !.proc = IF st.proc = "running" /\ exc THEN "raised" ELSE st.proc]

EnterFailed(st) == [st EXCEPT !.obj.pc = "enter_failed"]

----------------------------------------------------------------------------
(* S3Reader *)

S3ReaderInit(st, s3_only, suppress) ==
    Constructed(st, "S3Reader", s3_only, suppress, S3Initializer(env, s3_only))

\* ReadsRemotely without the isfile and s3_only tests
ReadsRemotelyUnforced(o, f) == HasAttr(o, "bucket") /\ ~Exists(f)

\* the test of S3Reader.__enter__ that sends the read to the bucket
ReadsRemotely(o, f) ==
    HasAttr(o, "bucket") /\ (~Exists(f) \/ ~IsFile(f) \/ o.s3_only)

\* what follows head_object in S3Reader.__enter__
AfterHead(h, dlOk) ==
    IF LastRes(h) = "404"
    THEN IF h.obj.suppress_file_not_found
         THEN [h EXCEPT !.obj.ret = "None", !.obj.pc = "entered"]
         ELSE EnterFailed(Ending(h, "exit1"))
    ELSE IF LastRes(h) = "error"
    THEN EnterFailed(Ending(h, "raised"))
    ELSE IF DownloadFile(h, dlOk).proc # "running"
    THEN EnterFailed(DownloadFile(h, dlOk))
    ELSE OpenRead(DownloadFile(h, dlOk), "file")

S3ReaderEnter(st, headOk, dlOk) ==
    IF ReadsRemotely(st.obj, st.fs[F])
    THEN AfterHead(HeadObject([st EXCEPT !.pre = st.fs[F]], headOk), dlOk)
    ELSE OpenRead([st EXCEPT !.pre = st.fs[F]], "file")

\* S3ReaderExit without the hasattr guard: closing a file never opened raises
S3ReaderExitUnguarded(st, exc) ==
    IF st.obj.file # "unset"
    THEN Left(CloseFile(st), exc)
    ELSE Left(Ending(st, "raised"), exc)

S3ReaderExit(st, exc) ==
    IF st.obj.file # "unset"            \* hasattr(self, 'file')
    THEN Left(CloseFile(st), exc)
    ELSE Left(st, exc)

----------------------------------------------------------------------------
(* CsvReader *)

\* the test of CsvReader.__init__ that downloads the file
CsvReaderDownloads(o, f) ==
    HasAttr(o, "bucket") /\ (~Exists(f) \/ ~IsFile(f))

ConstructFailed(st) == [st EXCEPT !.obj.pc = "construct_failed"]

CsvReaderInit(st, dlOk) ==
    LET c == Constructed(st, "CsvReader", FALSE, FALSE, S3Initializer(env, FALSE))
    IN  IF c.proc = "running" /\ CsvReaderDownloads(c.obj, c.fs[F])
        THEN IF DownloadFile(c, dlOk).proc # "running"
             THEN ConstructFailed(DownloadFile(c, dlOk))
             ELSE DownloadFile(c, dlOk)
        ELSE c

\* self.file.readline().strip() on a file just opened
FirstLine(f) == IF f.data = <<>> THEN <<>> ELSE Strip(f.data[1])

\* the dict built by enumerate(header.split(','))
ColumnIndex(names) ==
    { [k |-> names[i], v |-> i - 1] : i \in
        {j \in 1..Len(names) : \A m \in (j + 1)..Len(names) : names[m] # names[j]} }

CsvReaderEnter(st) ==
    LET o == OpenRead([st EXCEPT !.pre = st.fs[F]], "self")
    IN  IF o.proc # "running" THEN o
        ELSE [o EXCEPT !.obj.header = FirstLine(o.fs[F]),
                       !.obj.hasHeader = TRUE,
                       !.obj.column_names = Split(FirstLine(o.fs[F]), ","),
                       !.obj.column_index =
                           ColumnIndex(Split(FirstLine(o.fs[F]), ",")),
                       !.obj.cursor = IF o.fs[F].data = <<>> THEN 0 ELSE 1]

CsvReaderExit(st, exc) == Left(CloseFile(st), exc)

----------------------------------------------------------------------------
(* S3Writer *)

S3WriterInit(st, s3_only) ==
    Constructed(st, "S3Writer", s3_only, FALSE, S3Initializer(env, s3_only))

\* shutil.copy2(filename, filename + '.sav')
Copy2(st) ==
    IF IsFile(st.fs[F])
    THEN [Logged(st, Ev("backup", "ok", FALSE, <<>>))
              EXCEPT !.fs = [st.fs EXCEPT ![Sav] = st.fs[F]]]
    ELSE EnterFailed(Ending(st, "raised"))

S3WriterEnter(st) ==
    LET s0 == [st EXCEPT !.pre = st.fs[F]]
    IN  IF Exists(s0.fs[F])
        THEN IF Copy2(s0).proc # "running" THEN Copy2(s0)
             ELSE OpenWrite(Copy2(s0), "file")
        ELSE OpenWrite(s0, "file")

\* print(..., file=file) in the body of the scope
S3WriterWrite(st, line) ==
    [st EXCEPT !.fs = [st.fs EXCEPT ![F] = File(Append(st.fs[F].data, line))],
               !.obj.written = st.obj.written + 1]

\* the upload of S3Writer.__exit__, with its ExtraArgs
S3WriterUpload(st, upOk) ==
    IF HasAttr(st.obj, "kms_key_arn")
    THEN UploadFile(st, upOk, TRUE, <<"self.kms_key_arn">>)
    ELSE UploadFile(st, upOk, FALSE, <<>>)

\* S3WriterExit that uploads only when the body raised nothing
S3WriterExitCleanOnly(st, exc, upOk) ==
    IF HasAttr(st.obj, "bucket") /\ ~exc
    THEN Left(S3WriterUpload(CloseFile(st), upOk), exc)
    ELSE Left(CloseFile(st), exc)

S3WriterExit(st, exc, upOk) ==
    IF HasAttr(st.obj, "bucket")
    THEN Left(S3WriterUpload(CloseFile(st), upOk), exc)
    ELSE Left(CloseFile(st), exc)

----------------------------------------------------------------------------
(* CsvWriter *)

CsvWriterInit(st, hasHeader, header) ==
    LET c == Constructed(st, "CsvWriter", FALSE, FALSE, S3Initializer(env, FALSE))
    IN  IF c.proc # "running" THEN c
        ELSE [c EXCEPT !.obj.hasHeader = hasHeader, !.obj.header = header]

CsvWriterEnter(st) == OpenWrite([st EXCEPT !.pre = st.fs[F]], "self")

AddValue(o, value) ==
    [o EXCEPT !.current_line =
                  IF o.current_line = <<>> THEN value
                  ELSE o.current_line \o <<",">> \o value,
              !.written = o.written + 1]

RECURSIVE AddValues(_, _)
AddValues(o, value_list) ==
    IF value_list = <<>> THEN o
    ELSE AddValues(AddValue(o, Head(value_list)), Tail(value_list))

NewLine(o) ==
    [o EXCEPT !.lines = Append(o.lines, o.current_line),
              !.current_line = <<>>, !.written = 0]

\* the lines alone, whatever header was given
CsvWriterOutputNoHeader(o) == o.lines

\* what CsvWriter.__exit__ prints to the file
CsvWriterOutput(o) ==
    IF o.hasHeader /\ o.header # <<>> THEN <<o.header>> \o o.lines ELSE o.lines

CsvWriterFlush(st) ==
    [st EXCEPT !.fs = [st.fs EXCEPT ![F] =
                          File(st.fs[F].data \o CsvWriterOutput(st.obj))]]

CsvWriterExit(st, exc, upOk) ==
    IF HasAttr(st.obj, "bucket")
    THEN Left(UploadFile(CloseFile(CsvWriterFlush(st)), upOk, FALSE, <<>>), exc)
    ELSE Left(CloseFile(CsvWriterFlush(st)), exc)

----------------------------------------------------------------------------
(* The resource layer as a state machine: one component instance is        *)
(* constructed, its scope entered, used and left.                          *)

Headers == { [has |-> FALSE, v |-> <<>>], [has |-> TRUE, v |-> <<"h", ",", "g">>] }
Records == { <<"w">> }
Values == { <<"x">>, <<>> }
ValueLists == { <<>>, <<"x">>, <<"x", "y">> }    \* add_values applies str() to each

Running == proc = "running"
At(kind, pc) == Running /\ obj.kind = kind /\ obj.pc = pc

NoCfgFile == [exists |-> FALSE, lines |-> <<>>]
NoCfgArgs == [config_key |-> <<>>, suppress_key_not_found |-> FALSE]
NotCalled == [outcome |-> "none", value |-> Zero]

NoArg ==
    [ name |-> <<>>, isList |-> FALSE, columns |-> <<>>, separator |-> <<>>,
      valuesAreList |-> FALSE, pages |-> <<>>,
      number |-> 0, values |-> <<>>, records |-> <<>>, column_list |-> <<>>,
      generate_totals |-> FALSE ]
NoCall == [op |-> "none", arg |-> NoArg, out |-> NotCalled, before |-> NoObj]

InitRes ==
    /\ env \in Envs
    /\ fs \in [{F, Sav} -> {Absent, Dir, File(OldData)}]
    /\ fs[Sav] # Dir
    /\ remote \in {Absent, File(RemoteData)}
    /\ obj = NoObj
    /\ log = <<>>
    /\ proc = "running"
    /\ pre = Absent

Init ==
    /\ InitRes
    /\ cfgFile = NoCfgFile
    /\ cfgArgs = NoCfgArgs
    /\ cfgOut = NotCalled
    /\ call = NoCall

NewS3Reader ==
    /\ At("none", "none")
    /\ \E s3_only \in BOOLEAN, suppress \in BOOLEAN :
           Apply(S3ReaderInit(Cur, s3_only, suppress))
    /\ UNCHANGED <<env, cfgVars, csvVars>>

EnterS3Reader ==
    /\ At("S3Reader", "constructed")
    /\ \E headOk \in BOOLEAN, dlOk \in BOOLEAN :
           Apply(S3ReaderEnter(Cur, headOk, dlOk))
    /\ UNCHANGED <<env, cfgVars, csvVars>>

ExitS3Reader ==
    /\ At("S3Reader", "entered")
    /\ \E exc \in BOOLEAN : Apply(S3ReaderExit(Cur, exc))
    /\ UNCHANGED <<env, cfgVars, csvVars>>

NewCsvReader ==
    /\ At("none", "none")
    /\ \E dlOk \in BOOLEAN : Apply(CsvReaderInit(Cur, dlOk))
    /\ UNCHANGED <<env, cfgVars, csvVars>>

EnterCsvReader ==
    /\ At("CsvReader", "constructed")
    /\ Apply(CsvReaderEnter(Cur))
    /\ UNCHANGED <<env, cfgVars, csvVars>>

ExitCsvReader ==
    /\ At("CsvReader", "entered")
    /\ \E exc \in BOOLEAN : Apply(CsvReaderExit(Cur, exc))
    /\ UNCHANGED <<env, cfgVars, csvVars>>

NewS3Writer ==
    /\ At("none", "none")
    /\ \E s3_only \in BOOLEAN : Apply(S3WriterInit(Cur, s3_only))
    /\ UNCHANGED <<env, cfgVars, csvVars>>

EnterS3Writer ==
    /\ At("S3Writer", "constructed")
    /\ Apply(S3WriterEnter(Cur))
    /\ UNCHANGED <<env, cfgVars, csvVars>>

WriteS3Writer ==
    /\ At("S3Writer", "entered")
    /\ obj.written < MaxWrites
    /\ \E line \in Records : Apply(S3WriterWrite(Cur, line))
    /\ UNCHANGED <<env, cfgVars, csvVars>>

ExitS3Writer ==
    /\ At("S3Writer", "entered")
    /\ \E exc \in BOOLEAN, upOk \in BOOLEAN : Apply(S3WriterExit(Cur, exc, upOk))
    /\ UNCHANGED <<env, cfgVars, csvVars>>

NewCsvWriter ==
    /\ At("none", "none")
    /\ \E h \in Headers : Apply(CsvWriterInit(Cur, h.has, h.v))
    /\ UNCHANGED <<env, cfgVars, csvVars>>

EnterCsvWriter ==
    /\ At("CsvWriter", "constructed")
    /\ Apply(CsvWriterEnter(Cur))
    /\ UNCHANGED <<env, cfgVars, csvVars>>

CsvAddValue ==
    /\ At("CsvWriter", "entered")
    /\ obj.written < MaxValues
    /\ \E value \in Values : obj' = AddValue(obj, value)
    /\ UNCHANGED <<env, fs, remote, log, proc, pre, cfgVars, csvVars>>

CsvAddValues ==
    /\ At("CsvWriter", "entered")
    /\ \E value_list \in ValueLists :
           /\ obj.written + Len(value_list) <= MaxValues
           /\ obj' = AddValues(obj, [i \in 1..Len(value_list) |-> <<value_list[i]>>])
    /\ UNCHANGED <<env, fs, remote, log, proc, pre, cfgVars, csvVars>>

CsvNewLine ==
    /\ At("CsvWriter", "entered")
    /\ Len(obj.lines) < MaxLines
    /\ obj' = NewLine(obj)
    /\ UNCHANGED <<env, fs, remote, log, proc, pre, cfgVars, csvVars>>

ExitCsvWriter ==
    /\ At("CsvWriter", "entered")
    /\ \E exc \in BOOLEAN, upOk \in BOOLEAN : Apply(CsvWriterExit(Cur, exc, upOk))
    /\ UNCHANGED <<env, cfgVars, csvVars>>

Next ==
    \/ NewS3Reader
    \/ EnterS3Reader
    \/ ExitS3Reader
    \/ NewCsvReader
    \/ EnterCsvReader
    \/ ExitCsvReader
    \/ NewS3Writer
    \/ EnterS3Writer
    \/ WriteS3Writer
    \/ ExitS3Writer
    \/ NewCsvWriter
    \/ EnterCsvWriter
    \/ CsvAddValue
    \/ CsvAddValues
    \/ CsvNewLine
    \/ ExitCsvWriter

Spec == Init /\ [][Next]_vars

----------------------------------------------------------------------------
(* Properties of the resource layer *)

Writers == {"S3Writer", "CsvWriter"}
Readers == {"S3Reader", "CsvReader"}

Ops(op) == {i \in DOMAIN log : log[i].op = op}
RemoteOps == Ops("head") \cup Ops("download") \cup Ops("upload")

\* C1: a write scope entered on a name whose local file exists has copied
\* the old content to <name>.sav before truncating the target
C1_BackupBeforeTruncate ==
    (obj.kind \in Writers /\ obj.pc \in {"entered", "exited"} /\ IsFile(pre))
        => /\ fs[Sav] = pre
           /\ \E i \in Ops("backup") : \A j \in Ops("truncate") : i < j

\* the part of C1 that is about S3Writer alone
C1_S3WriterBacksUp ==
    (obj.kind = "S3Writer" /\ obj.pc \in {"entered", "exited"} /\ IsFile(pre))
        => /\ fs[Sav] = pre
           /\ \E i \in Ops("backup") : \A j \in Ops("truncate") : i < j

\* C2: entering an S3Reader scope issues remote operations (head first, a
\* download only after it) exactly when the component holds a bucket and
\* the local regular file is missing or s3_only is set; otherwise it only
\* opens the local file, which it leaves as it was
C2_RemoteOnlyWhenNeeded ==
    (obj.kind = "S3Reader" /\ obj.pc \in {"entered", "enter_failed"})
        => LET need == HasAttr(obj, "bucket") /\ (~IsFile(pre) \/ obj.s3_only)
           IN  /\ (RemoteOps # {}) <=> need
               /\ need => log[1].op = "head"
               /\ \A i \in Ops("download") : i = 2 /\ log[1].op = "head"
               /\ ~need => /\ fs[F] = pre
                           /\ IF IsFile(pre)
                              THEN log = <<Ev("open", "ok", FALSE, <<>>)>>
                                   /\ obj.file = "open"
                              ELSE log = <<>> /\ proc = "raised"

C2_Witness ==
    /\ obj.kind = "S3Reader" /\ obj.pc = "entered"
    /\ HasAttr(obj, "bucket") /\ IsFile(pre) /\ ~obj.s3_only
    /\ IsFile(remote) /\ remote # pre
    /\ RemoteOps = {} /\ obj.file = "open" /\ fs[F] = pre

ConstructorRan == obj.pc \in {"constructed", "construct_failed"}

UsesEnv ==
    /\ obj.attrs = CredAttrs
    /\ obj.access_key_id = EnvAccessKeyId
    /\ obj.bucket = EnvBucket
    /\ obj.secret_access_key = EnvSecretAccessKey

CfgComplete ==
    \A k \in {"access_key_id", "secret_access_key", "bucket"} : DictHas(env.cfg, k)

UsesCfg ==
    /\ obj.attrs = CredAttrs
    /\ obj.access_key_id = DictGet(env.cfg, "access_key_id")
    /\ obj.bucket = DictGet(env.cfg, "bucket")
    /\ obj.secret_access_key = DictGet(env.cfg, "secret_access_key")

LocalOnly == obj.pc = "constructed" /\ obj.attrs = {} /\ proc = "running"

ConstructionEnded(how) ==
    obj.pc = "construct_failed" /\ obj.attrs = {} /\ proc = how

ArnOk == env.hasArn => Contains(env.arn, "/")

C4_ExitClosesThenUploadsOnce ==
    /\ (obj.kind \in Writers /\ obj.pc = "exited") =>
           /\ obj.file = "closed"
           /\ Cardinality(Ops("upload")) = IF HasAttr(obj, "bucket") THEN 1 ELSE 0
           /\ \A i \in Ops("upload") : \E j \in Ops("close") : j < i
    /\ (obj.kind \in Writers /\ obj.pc = "entered") =>
           obj.file = "open" /\ Ops("upload") = {}

C4_Witness ==
    /\ obj.kind = "S3Writer" /\ obj.pc = "exited" /\ obj.exc
    /\ HasAttr(obj, "bucket")
    /\ Cardinality(Ops("upload")) = 1 /\ obj.file = "closed"

NoFetch == Ops("download") = {} /\ Ops("open") = {} /\ obj.file = "unset"

\* C5: a probe answering not-found gives, with suppress_file_not_found, a
\* None result with no download and no open, and a scope that is left
\* without error; without it the process exits with status 1. A probe
\* failing otherwise raises, with no download and no open
C5_ProbeOutcomes ==
    (obj.kind = "S3Reader" /\ Ops("head") # {}) =>
        /\ log[1].res = "404" =>
               IF obj.suppress_file_not_found
               THEN /\ obj.ret = "None" /\ NoFetch
                    /\ obj.pc \in {"entered", "exited"}
                    /\ (obj.pc = "entered" \/ ~obj.exc) => proc = "running"
               ELSE obj.pc = "enter_failed" /\ proc = "exit1" /\ NoFetch
        /\ log[1].res = "error" =>
               obj.pc = "enter_failed" /\ proc = "raised" /\ NoFetch

C5_Witness ==
    /\ obj.kind = "S3Reader" /\ Ops("head") # {} /\ log[1].res = "404"
    /\ obj.suppress_file_not_found /\ obj.pc = "exited" /\ ~obj.exc
    /\ proc = "running" /\ obj.ret = "None"

\* C6: a read of a resource that is neither local nor remote ends the
\* process, or with suppress_file_not_found returns None, in every mode
C6_NotFoundEverywhere ==
    (/\ obj.kind = "S3Reader" /\ obj.pc \in {"entered", "enter_failed"}
     /\ ~Exists(pre) /\ ~IsFile(remote)
     /\ \A i \in DOMAIN log : log[i].res # "error")
        => IF obj.suppress_file_not_found
           THEN obj.pc = "entered" /\ obj.ret = "None" /\ proc = "running"
           ELSE proc \in {"exit1", "raised"}

\* C7: no reader downloads without a probe that answered found before it
C7_DownloadAfterProbe ==
    obj.kind \in Readers =>
        \A i \in Ops("download") :
            \E j \in Ops("head") : j < i /\ log[j].res = "found"

\* C8: the upload of an S3Writer carries server-side-encryption parameters
\* naming kms_key_id exactly when a non-empty kms_key_id was resolved
C8_UploadEncryptedIffKey ==
    obj.kind = "S3Writer" =>
        \A i \in Ops("upload") :
            /\ log[i].sse <=> obj.kms_key_id.v # <<>>
            /\ log[i].sse => log[i].key = obj.kms_key_id.v

LastSegment(s) == Split(s, "/")[Len(Split(s, "/"))]

\* C9: kms_key_id is the part after the last '/' of the source's
\* kms_key_arn, and empty when the source has none
C9_KmsKeyIdFromArn ==
    (obj.pc = "constructed" /\ HasAttr(obj, "kms_key_id")) =>
        IF VcapPresent(env)
        THEN obj.kms_key_id =
                 Str(IF env.hasArn THEN LastSegment(env.arn) ELSE <<>>)
        ELSE obj.kms_key_id =
                 Str(IF DictHas(env.cfg, "kms_key_arn")
                     THEN LastSegment(DictGet(env.cfg, "kms_key_arn").v)
                     ELSE <<>>)

----------------------------------------------------------------------------
(* get_useful_lines and get_config_value *)

\* A line read by readlines() still ends with its newline, so its length
\* is one more than the length of the text modelled here.
IsUseful(line) == ~StartsWith(line, "#") /\ Len(line) + 1 > 0

RECURSIVE UsefulLines(_)
UsefulLines(lines) ==
    IF lines = <<>> THEN <<>>
    ELSE IF IsUseful(Head(lines))
         THEN <<RStrip(Head(lines))>> \o UsefulLines(Tail(lines))
         ELSE UsefulLines(Tail(lines))

\* the test of get_config_value for a line that holds a key
IsKeyLine(line) == Contains(line, ":") /\ ~StartsWith(line, " ")

\* the loop state of get_config_value before the first line
ScanStart ==
    [ result |-> Str(<<>>), results |-> {}, key |-> <<>>, raised |-> FALSE ]

\* "If there is a previous result": results[key] = result
Flushed(sc) ==
    IF Len(sc.result.v) > 0 THEN DictSet(sc.results, sc.key, sc.result)
    ELSE sc.results

\* one iteration of the loop of get_config_value
ScanLine(sc, line) ==
    IF sc.raised THEN sc
    ELSE IF IsKeyLine(line)
    THEN LET parts == SplitOnce(Strip(line), ":")
             value == Strip(parts[2])
         IN  [ result |-> IF Len(value) > 0 THEN Str(value) ELSE List(<<>>),
               results |-> Flushed(sc),
               key |-> parts[1],
               raised |-> FALSE ]
    ELSE IF sc.result.t = "list"
    THEN [sc EXCEPT !.result = List(Append(sc.result.v, Strip(line)))]
    ELSE [sc EXCEPT !.raised = TRUE]      \* str has no append

RECURSIVE Scan(_, _)
Scan(sc, lines) ==
    IF lines = <<>> THEN sc ELSE Scan(ScanLine(sc, Head(lines)), Tail(lines))

GetConfigValue(file, config_key, suppress_key_not_found) ==
    IF ~file.exists THEN Exit1
    ELSE IF Scan(ScanStart, UsefulLines(file.lines)).raised THEN Raised
    ELSE ConfigLookup(Flushed(Scan(ScanStart, UsefulLines(file.lines))),
                      config_key, suppress_key_not_found)

----------------------------------------------------------------------------
(* get_config_value applied to every small configuration file *)

CfgLines ==
    { <<"k", ":", "v">>, <<"k", ":">>, <<"j", ":", " ", "w", " ">>, <<"j", ":">>,
      <<" ", "x">>, <<"-", "y", " ">>, <<>>, <<"#", "c">>,
      <<" ", "j", ":", "w">>, <<"\t", "j", ":", "w">> }

CfgKeys == { <<"k">>, <<"j">>, <<"z">> }

CfgFileSet ==
    {NoCfgFile} \cup
    { [exists |-> TRUE, lines |-> l] :
        l \in UNION { [1..n -> CfgLines] : n \in 0..MaxCfgLines } }

InitCfg ==
    /\ env = [vcap |-> "absent", hasArn |-> FALSE, arn |-> <<>>,
              cfgExists |-> FALSE, cfg |-> {}]
    /\ fs = [n \in {F, Sav} |-> Absent]
    /\ remote = Absent
    /\ obj = NoObj
    /\ log = <<>>
    /\ proc = "running"
    /\ pre = Absent
    /\ cfgFile \in CfgFileSet
    /\ cfgArgs \in [config_key : CfgKeys, suppress_key_not_found : BOOLEAN]
    /\ cfgOut = NotCalled
    /\ call = NoCall

CallGetConfigValue ==
    /\ cfgOut.outcome = "none"
    /\ cfgOut' = GetConfigValue(cfgFile, cfgArgs.config_key,
                                cfgArgs.suppress_key_not_found)
    /\ UNCHANGED <<resVars, cfgFile, cfgArgs, csvVars>>

NextCfg == CallGetConfigValue

SpecCfg == InitCfg /\ [][NextCfg]_vars

----------------------------------------------------------------------------
(* Properties of get_config_value *)

\* a top-level line of the file format: ^\S.*:.*$
IsTopLevel(line) ==
    line # <<>> /\ ~IsWs(line[1]) /\ Contains(line, ":")

KeyOf(line) == SubSeq(line, 1, Find(line, ":") - 1)
InlineOf(line) == Strip(SubSeq(line, Find(line, ":") + 1, Len(line)))

\* the lines after line i up to, not including, the next top-level line
RECURSIVE BlockAfter(_, _)
BlockAfter(lines, i) ==
    IF i + 1 > Len(lines) \/ IsTopLevel(lines[i + 1]) THEN <<>>
    ELSE <<Strip(lines[i + 1])>> \o BlockAfter(lines, i + 1)

KeyLines(lines, key) ==
    {i \in 1..Len(lines) : IsTopLevel(lines[i]) /\ KeyOf(lines[i]) = key}

\* the value the file format gives to the key line i
FormatValue(lines, i) ==
    IF InlineOf(lines[i]) # <<>> THEN Str(InlineOf(lines[i]))
    ELSE List(BlockAfter(lines, i))

\* a file of top-level lines and, under block keys only, continuation
\* lines without ':'; no blank or comment lines; keys unique
WellFormedCfg(lines) ==
    /\ lines # <<>> /\ IsTopLevel(lines[1])
    /\ \A i \in 1..Len(lines) :
           \/ IsTopLevel(lines[i])
           \/ /\ Strip(lines[i]) # <<>> /\ lines[i][1] # "#"
              /\ ~Contains(lines[i], ":")
              /\ \E j \in 1..(i - 1) :
                     /\ IsTopLevel(lines[j]) /\ InlineOf(lines[j]) = <<>>
                     /\ \A m \in (j + 1)..i : ~IsTopLevel(lines[m])
    /\ \A i, j \in 1..Len(lines) :
           (IsTopLevel(lines[i]) /\ IsTopLevel(lines[j])
                /\ KeyOf(lines[i]) = KeyOf(lines[j])) => i = j

CfgCalledOnKey ==
    /\ cfgOut.outcome # "none" /\ cfgFile.exists
    /\ WellFormedCfg(cfgFile.lines)
    /\ KeyLines(cfgFile.lines, cfgArgs.config_key) # {}

\* C10: on a well-formed file get_config_value returns the trimmed inline
\* text of an inline key, and for a block key the list of its N trimmed
\* continuation lines in file order, for every N >= 0, the last key included
C10_ValueOfEveryKey ==
    CfgCalledOnKey =>
        \A i \in KeyLines(cfgFile.lines, cfgArgs.config_key) :
            cfgOut = Returned(FormatValue(cfgFile.lines, i))

\* the same with the block keys that have no continuation line left out
C10_ValueOfNonEmptyKey ==
    CfgCalledOnKey =>
        \A i \in KeyLines(cfgFile.lines, cfgArgs.config_key) :
            FormatValue(cfgFile.lines, i) # List(<<>>)
                => cfgOut = Returned(FormatValue(cfgFile.lines, i))

Without(lines, i) == SubSeq(lines, 1, i - 1) \o SubSeq(lines, i + 1, Len(lines))

IsBlank(line) == Strip(line) = <<>>
IsComment(line) == StartsWith(line, "#")

CfgCalled == cfgOut.outcome # "none" /\ cfgFile.exists

CfgValueWithout(i) ==
    GetConfigValue([exists |-> TRUE, lines |-> Without(cfgFile.lines, i)],
                   cfgArgs.config_key, cfgArgs.suppress_key_not_found)

\* C11: a blank line or a '#' line at any position of the file changes the
\* value of no key and causes no failure: the call gives what it gives on
\* the file without that line
C11_BlankAndCommentIgnored ==
    CfgCalled =>
        \A i \in 1..Len(cfgFile.lines) :
            (IsBlank(cfgFile.lines[i]) \/ IsComment(cfgFile.lines[i]))
                => cfgOut = CfgValueWithout(i)

\* the same for '#' lines alone
C11_CommentIgnored ==
    CfgCalled =>
        \A i \in 1..Len(cfgFile.lines) :
            IsComment(cfgFile.lines[i]) => cfgOut = CfgValueWithout(i)

\* a file of the format: top-level lines, blank lines, '#' lines and, under
\* block keys only, continuation lines without ':'
FormatCfg(lines) ==
    \A i \in 1..Len(lines) :
        \/ IsTopLevel(lines[i]) \/ IsBlank(lines[i]) \/ IsComment(lines[i])
        \/ /\ ~Contains(lines[i], ":")
           /\ \E j \in 1..(i - 1) :
                  /\ IsTopLevel(lines[j]) /\ InlineOf(lines[j]) = <<>>
                  /\ \A m \in (j + 1)..i : ~IsTopLevel(lines[m])

KeyMissing ==
    /\ CfgCalled /\ FormatCfg(cfgFile.lines)
    /\ KeyLines(cfgFile.lines, cfgArgs.config_key) = {}

\* C12: a missing file ends the process with exit(1) whatever the
\* suppression; a file without the key ends the process unless
\* suppress_key_not_found is set, and then the call returns 0
C12_MissingFileAndKey ==
    /\ (cfgOut.outcome # "none" /\ ~cfgFile.exists) => cfgOut = Exit1
    /\ KeyMissing =>
           IF cfgArgs.suppress_key_not_found
           THEN cfgOut = Returned(Zero)
           ELSE cfgOut.outcome # "return"

\* the same on files without blank lines
C12_MissingWithoutBlanks ==
    /\ (cfgOut.outcome # "none" /\ ~cfgFile.exists) => cfgOut = Exit1
    /\ (KeyMissing /\ \A i \in 1..Len(cfgFile.lines) : ~IsBlank(cfgFile.lines[i])) =>
           IF cfgArgs.suppress_key_not_found
           THEN cfgOut = Returned(Zero)
           ELSE cfgOut = Exit0

----------------------------------------------------------------------------
(* CsvReader: records and columns. A handler gives the instance after the  *)
(* call and the call's outcome.                                            *)

Bool(b) == [t |-> "bool", v |-> <<b>>]
Num(n) == [t |-> "num", v |-> <<n>>]      \* a number of whole value
Stop == [outcome |-> "stop", value |-> Zero]     \* the generator is exhausted

Res(o, out) == [o |-> o, out |-> out]

\* readlines() called: a generator that has not run yet
ReadlinesCall(o) ==
    [o EXCEPT !.gens = Append(o.gens, [started |-> FALSE, buffer |-> <<>>])]

\* a generator whose first step reads the file again from its first line
StartedRewound(o, f, g) ==
    IF o.gens[g].started THEN o
    ELSE [o EXCEPT !.gens[g] = [started |-> TRUE, buffer |-> f.data],
                   !.cursor = Len(f.data)]

\* self.file.readlines() at the first step of generator g: every line the
\* file object has not read yet
Started(o, f, g) ==
    IF o.gens[g].started THEN o
    ELSE [o EXCEPT !.gens[g] = [started |-> TRUE,
                                buffer |-> SubSeq(f.data, o.cursor + 1,
                                                  Len(f.data))],
                   !.cursor = Len(f.data)]

\* one step of generator g of CsvReader.readlines
NextLine(o, f, g) ==
    LET s == Started(o, f, g)
    IN  IF s.gens[g].buffer = <<>> THEN Res(s, Stop)
        ELSE Res([s EXCEPT !.gens[g].buffer = Tail(s.gens[g].buffer),
                           !.current_line = Strip(Head(s.gens[g].buffer)),
                           !.words = Split(Strip(Head(s.gens[g].buffer)), ","),
                           !.attrs = s.attrs \cup {"current_line", "words"}],
                 Returned(Str(Strip(Head(s.gens[g].buffer)))))

\* one step of `for line in csv_reader.readlines()`
Readlines(o, f) ==
    IF o.gens = <<>> THEN NextLine(ReadlinesCall(o), f, 1)
    ELSE NextLine(o, f, Len(o.gens))

\* seq[i] with Python's indexing: from 0, negative from the end
PyIndex(seq, i) ==
    IF 0 <= i /\ i < Len(seq) THEN Returned(Str(seq[i + 1]))
    ELSE IF i < 0 /\ -Len(seq) <= i THEN Returned(Str(seq[Len(seq) + i + 1]))
    ELSE Raised

\* Column that answers the first field for a name the header lacks
ColumnDefaulting(o, column_name) ==
    IF ~HasAttr(o, "words") THEN Res(o, Raised)
    ELSE IF ~DictHas(o.column_index, column_name) THEN Res(o, PyIndex(o.words, 0))
    ELSE Res(o, PyIndex(o.words, DictGet(o.column_index, column_name)))

Column(o, column_name) ==
    IF ~HasAttr(o, "words") \/ ~DictHas(o.column_index, column_name)
    THEN Res(o, Raised)           \* AttributeError / KeyError after the message
    ELSE Res(o, PyIndex(o.words, DictGet(o.column_index, column_name)))

ColumnByNumber(o, column_number) ==
    IF ~HasAttr(o, "words") THEN Res(o, Raised)
    ELSE IF column_number > Len(o.words) THEN Res(o, Exit0)
    ELSE Res(o, PyIndex(o.words, column_number - 1))

ColumnPresent(o, column_name) ==
    Res(o, Returned(Bool(DictHas(o.column_index, column_name))))

\* the loop of build_key over a list of columns
RECURSIVE BuildKeyLoop(_, _, _, _)
BuildKeyLoop(o, columns, separator, key) ==
    IF columns = <<>> THEN Res(o, Returned(Str(key)))
    ELSE IF Column(o, Head(columns)).out.outcome # "return"
    THEN Column(o, Head(columns))
    ELSE BuildKeyLoop(o, Tail(columns), separator,
                      IF key = <<>>
                      THEN Column(o, Head(columns)).out.value.v
                      ELSE key \o separator
                               \o Column(o, Head(columns)).out.value.v)

\* columns is a list (isList) or a single column name, held as <<name>>
BuildKey(o, isList, columns, separator) ==
    IF isList
    THEN BuildKeyLoop(o, columns, IF separator = <<>> THEN <<",">> ELSE separator,
                      <<>>)
    ELSE Column(o, columns[1])

----------------------------------------------------------------------------
(* The CSV reader applied to every small CSV file *)

CsvLines ==
    { <<"a", ",", "b">>, <<"a", ",", "a">>, <<"1", ",", "2">>, <<",", "2">>,
      <<"1", ",">>, <<"3">>, <<"2", ",", "3">> }

CsvFileSet ==
    { File(l) : l \in UNION { [1..n -> CsvLines] : n \in 0..MaxCsvLines } }

\* the lines of the files read call by call
ReaderLines ==
    { <<"a", ",", "b">>, <<"a", ",", "a">>, <<"1", ",", "2">>, <<",", "2">>,
      <<"3">> }

ReaderFileSet ==
    { File(l) : l \in UNION { [1..n -> ReaderLines] : n \in 0..MaxCsvLines } }

ColumnNames == { <<"a">>, <<"b">>, <<"c">> }
ColumnLists ==
    { <<>>, << <<"a">> >>, << <<"a">>, <<"b">> >>, << <<"b">>, <<"a">> >>,
      << <<"a">>, <<"c">> >> }
Separators == { <<>>, <<"|">> }
ColumnNumbers == (-3)..3
GeneratorIds == {1, 2}      \* the generators made by readlines() calls

LocalEnv ==
    [vcap |-> "absent", hasArn |-> FALSE, arn |-> <<>>,
     cfgExists |-> FALSE, cfg |-> {}]

InitCsvOf(files) ==
    /\ env = LocalEnv
    /\ fs \in [{F, Sav} -> files \cup {Absent}]
    /\ fs[Sav] = Absent
    /\ remote = Absent
    /\ obj = NoObj
    /\ log = <<>>
    /\ proc = "running"
    /\ pre = Absent
    /\ cfgFile = NoCfgFile
    /\ cfgArgs = NoCfgArgs
    /\ cfgOut = NotCalled
    /\ call = NoCall

InitCsv == InitCsvOf(ReaderFileSet)

\* the call is recorded and the process ends if the call ended it
Called(op, arg, r) ==
    /\ call' = [op |-> op, arg |-> arg, out |-> r.out, before |-> obj]
    /\ obj' = r.o
    /\ proc' = IF r.out.outcome \in {"return", "stop"} THEN proc ELSE r.out.outcome
    /\ UNCHANGED <<env, fs, remote, log, pre, cfgVars>>

\* a step of a generator is recorded, and so is the line it delivers
Delivering(op, arg, r) ==
    /\ call' = [op |-> op, arg |-> arg, out |-> r.out, before |-> obj]
    /\ obj' = r.o
    /\ proc' = IF r.out.outcome \in {"return", "stop"} THEN proc ELSE r.out.outcome
    /\ log' = IF r.out.outcome = "return"
              THEN Append(log, Ev("deliver", "ok", FALSE, r.out.value.v))
              ELSE log
    /\ UNCHANGED <<env, fs, remote, pre, cfgVars>>

CsvReadlinesCall ==
    /\ At("CsvReader", "entered")
    /\ Len(obj.gens) < Cardinality(GeneratorIds)
    /\ Called("readlines", NoArg, Res(ReadlinesCall(obj), Returned(Zero)))

CsvReadlines ==
    /\ At("CsvReader", "entered")
    /\ \E g \in 1..Len(obj.gens) :
           Delivering("next", [NoArg EXCEPT !.number = g],
                      NextLine(obj, fs[F], g))

CsvColumn ==
    /\ At("CsvReader", "entered")
    /\ \E name \in ColumnNames :
           Called("column", [NoArg EXCEPT !.name = name], Column(obj, name))

CsvColumnByNumber ==
    /\ At("CsvReader", "entered")
    /\ \E n \in ColumnNumbers :
           Called("column_by_number", [NoArg EXCEPT !.number = n],
                  ColumnByNumber(obj, n))

CsvColumnPresent ==
    /\ At("CsvReader", "entered")
    /\ \E name \in ColumnNames :
           Called("column_present", [NoArg EXCEPT !.name = name],
                  ColumnPresent(obj, name))

CsvBuildKey ==
    /\ At("CsvReader", "entered")
    /\ \E columns \in ColumnLists, separator \in Separators, isList \in BOOLEAN :
           /\ ~isList => Len(columns) = 1
           /\ Called("build_key",
                     [NoArg EXCEPT !.isList = isList, !.columns = columns,
                                   !.separator = separator],
                     BuildKey(obj, isList, columns, separator))

Digits == <<"0", "1", "2", "3", "4", "5", "6", "7", "8", "9">>
IsDigit(c) == \E d \in 1..Len(Digits) : Digits[d] = c
DigitValue(c) == (CHOOSE d \in 1..Len(Digits) : Digits[d] = c) - 1
IsNumeric(s) == s # <<>> /\ \A i \in 1..Len(s) : IsDigit(s[i])

RECURSIVE Value(_)
Value(s) ==
    IF s = <<>> THEN 0
    ELSE Value(SubSeq(s, 1, Len(s) - 1)) * Len(Digits) + DigitValue(s[Len(s)])

\* float(x) of a call outcome holding a string of digits; ValueError otherwise
Float(out) ==
    IF out.outcome = "return" /\ IsNumeric(out.value.v)
    THEN Returned(Num(Value(out.value.v)))
    ELSE Raised

\* words[i] of key_column.split('*'), from 0
Word(words, i) == IF i < Len(words) THEN Returned(Str(words[i + 1])) ELSE Raised

\* the amount one record adds to the total
TotalTerm(o, key_column) ==
    IF Contains(key_column, "*")
    THEN LET words == Split(key_column, "*")
             x == Float(IF Word(words, 0).outcome = "return"
                        THEN Column(o, words[1]).out ELSE Raised)
             y == Float(IF Word(words, 1).outcome = "return"
                        THEN Column(o, words[2]).out ELSE Raised)
         IN  IF x.outcome = "return" /\ y.outcome = "return"
             THEN Returned(Num(x.value.v[1] * y.value.v[1]))
             ELSE Raised
    ELSE Float(Column(o, key_column).out)

\* for line in csv_reader.readlines(): total += ...
RECURSIVE TotalLoop(_, _, _, _)
TotalLoop(o, f, key_column, total) ==
    LET r == Readlines(o, f)
    IN  IF r.out = Stop THEN Res(o, Returned(Num(total)))
        ELSE IF TotalTerm(r.o, key_column).outcome # "return"
        THEN Res(r.o, Raised)
        ELSE TotalLoop(r.o, f, key_column,
                       total + TotalTerm(r.o, key_column).value.v[1])

\* a function body run inside `with CsvReader(csv_filename) as csv_reader`:
\* body(o, f) gives the reader after the body and the body's outcome
WithCsvReader(st, r) ==
    [st |-> CsvReaderExit([Ending(st, IF r.out.outcome = "return" THEN "running"
                                      ELSE r.out.outcome)
                              EXCEPT !.obj = r.o],
                          r.out.outcome # "return"),
     out |-> r.out]

Opened(st, dlOk) ==
    IF CsvReaderInit(st, dlOk).proc # "running" THEN CsvReaderInit(st, dlOk)
    ELSE CsvReaderEnter(CsvReaderInit(st, dlOk))

NotOpened(st) == [st |-> st, out |-> [outcome |-> st.proc, value |-> Zero]]

GetTotalFromCsv(st, key_column, dlOk) ==
    LET e == Opened(st, dlOk)
    IN  IF e.proc # "running" THEN NotOpened(e)
        ELSE IF ~ColumnPresent(e.obj, key_column).out.value.v[1]
        THEN WithCsvReader(e, Res(e.obj, Exit0))
        ELSE WithCsvReader(e, TotalLoop(e.obj, e.fs[F], key_column, 0))

KeyColumns == { <<"a">>, <<"b">>, <<"c">>, <<"a", "*", "b">>, <<"a", "*", "a">> }

\* a whole function ran: its outcome is recorded
Ran(op, arg, r) ==
    /\ Apply(r.st)
    /\ call' = [op |-> op, arg |-> arg, out |-> r.out, before |-> obj]
    /\ UNCHANGED <<env, cfgVars>>

CallGetTotalFromCsv ==
    /\ At("none", "none")
    /\ \E key_column \in KeyColumns, dlOk \in BOOLEAN :
           Ran("get_total_from_csv", [NoArg EXCEPT !.name = key_column],
               GetTotalFromCsv(Cur, key_column, dlOk))

\* every record of the file, read as readlines() then columns()
RECURSIVE ReadRecords(_, _, _)
ReadRecords(o, f, records) ==
    LET r == Readlines(o, f)
    IN  IF r.out = Stop THEN [o |-> o, records |-> records]
        ELSE ReadRecords(r.o, f, Append(records, r.o.words))

\* add_values(record) then new_line(), for each record
RECURSIVE WriteRecords(_, _)
WriteRecords(o, records) ==
    IF records = <<>> THEN o
    ELSE WriteRecords(NewLine(AddValues(o, Head(records))), Tail(records))

\* the file read with CsvReader, then written again with CsvWriter from the
\* header and the records that were read
Reserialize(st, dlOk, upOk) ==
    LET e == Opened(st, dlOk)
    IN  IF e.proc # "running" THEN NotOpened(e)
        ELSE LET rd == ReadRecords(e.obj, e.fs[F], <<>>)
                 x == CsvReaderExit([e EXCEPT !.obj = rd.o], FALSE)
                 c == CsvWriterInit([x EXCEPT !.obj = NoObj], TRUE, x.obj.header)
                 w == CsvWriterEnter(c)
             IN  IF c.proc # "running" THEN NotOpened(c)
                 ELSE IF w.proc # "running" THEN NotOpened(w)
                 ELSE [st |-> CsvWriterExit(
                                  [w EXCEPT !.obj = WriteRecords(w.obj, rd.records)],
                                  FALSE, upOk),
                       out |-> Returned(Zero)]

CallReserialize ==
    /\ At("none", "none")
    /\ \E dlOk \in BOOLEAN, upOk \in BOOLEAN :
           Ran("reserialize", NoArg, Reserialize(Cur, dlOk, upOk))

Dict(d) == [t |-> "dict", v |-> d]

\* for line in csv_reader.readlines(): result[key] = value
RECURSIVE DictLoop(_, _, _, _)
DictLoop(o, f, arg, result) ==
    LET r == Readlines(o, f)
        key == BuildKey(r.o, arg.isList, arg.columns, <<>>).out
        value == BuildKey(r.o, arg.valuesAreList, arg.values, <<>>).out
    IN  IF r.out = Stop THEN Res(o, Returned(Dict(result)))
        ELSE IF key.outcome # "return" \/ value.outcome # "return"
        THEN Res(r.o, Raised)
        ELSE DictLoop(r.o, f, arg, DictSet(result, key.value.v, value.value.v))

BuildDictFromCsv(st, arg, dlOk) ==
    LET e == Opened(st, dlOk)
    IN  IF e.proc # "running" THEN NotOpened(e)
        ELSE WithCsvReader(e, DictLoop(e.obj, e.fs[F], arg, {}))

\* key_columns and value_columns: a list of names or one name
ColumnSpecs ==
    { [isList |-> TRUE, columns |-> c] : c \in ColumnLists }
        \cup { [isList |-> FALSE, columns |-> <<c>>] : c \in ColumnNames }

CallBuildDictFromCsv ==
    /\ At("none", "none")
    /\ \E k \in ColumnSpecs, v \in ColumnSpecs, dlOk \in BOOLEAN :
           Ran("build_dict_from_csv",
               [NoArg EXCEPT !.isList = k.isList, !.columns = k.columns,
                             !.valuesAreList = v.isList, !.values = v.columns],
               BuildDictFromCsv(Cur, [NoArg EXCEPT !.isList = k.isList,
                                                   !.columns = k.columns,
                                                   !.valuesAreList = v.isList,
                                                   !.values = v.columns], dlOk))

\* days_in_month of a month_string that int() accepts
DaysInMonth(month) ==
    IF month \in {4, 6, 9, 11} THEN Returned(Num(30))
    ELSE IF month = 2 THEN Returned(Num(28))
    ELSE IF month < 1 \/ month > 12 THEN Exit0
    ELSE Returned(Num(31))

Months == 0..13

CallDaysInMonth ==
    /\ At("none", "none")
    /\ \E month \in Months :
           Ran("days_in_month", [NoArg EXCEPT !.number = month],
               [st |-> Ending(Cur, IF DaysInMonth(month).outcome = "return"
                                   THEN "running"
                                   ELSE DaysInMonth(month).outcome),
                out |-> DaysInMonth(month)])

NextCsv ==
    \/ NewCsvReader
    \/ EnterCsvReader
    \/ CsvReadlinesCall
    \/ CsvReadlines
    \/ CsvColumn
    \/ CsvColumnByNumber
    \/ CsvColumnPresent
    \/ CsvBuildKey
    \/ ExitCsvReader

SpecCsv == InitCsv /\ [][NextCsv]_vars

(* The functions that read a whole CSV file, applied to every small file *)

InitCsvFn == InitCsvOf(CsvFileSet)

NextCsvFn ==
    \/ CallGetTotalFromCsv
    \/ CallReserialize
    \/ CallBuildDictFromCsv

SpecCsvFn == InitCsvFn /\ [][NextCsvFn]_vars

----------------------------------------------------------------------------
(* Properties of the CSV reader *)

CsvCalled(op) == call.op = op /\ HasAttr(call.before, "words")

\* the current record has a field for the named header column
HasField(o, name) ==
    /\ DictHas(o.column_index, name)
    /\ DictGet(o.column_index, name) < Len(o.words)

FieldOf(o, name) == o.words[DictGet(o.column_index, name) + 1]

RECURSIVE Join(_, _)
Join(values, separator) ==
    IF values = <<>> THEN <<>>
    ELSE IF Len(values) = 1 THEN values[1]
    ELSE values[1] \o separator \o Join(Tail(values), separator)

FieldsOf(o, columns) == [i \in 1..Len(columns) |-> FieldOf(o, columns[i])]

SeparatorOf(arg) == IF arg.separator = <<>> THEN <<",">> ELSE arg.separator

BuildKeyCalled ==
    /\ CsvCalled("build_key")
    /\ call.arg.isList
    /\ call.arg.columns # <<>>
    /\ \A i \in 1..Len(call.arg.columns) :
           HasField(call.before, call.arg.columns[i])

\* C13: build_key over a non-empty list of header columns returns the
\* record's values of those columns joined with the separator (comma when
\* none is given), empty values included.
C13_BuildKeyJoins ==
    BuildKeyCalled =>
        call.out = Returned(Str(Join(FieldsOf(call.before, call.arg.columns),
                                     SeparatorOf(call.arg))))

\* the same when the first column's value is not empty
C13_BuildKeyJoinsAfterNonEmpty ==
    (BuildKeyCalled /\ FieldOf(call.before, call.arg.columns[1]) # <<>>) =>
        call.out = Returned(Str(Join(FieldsOf(call.before, call.arg.columns),
                                     SeparatorOf(call.arg))))

----------------------------------------------------------------------------
(* Properties of get_total_from_csv, stated on the file's text *)

HeaderNames(f) == Split(FirstLine(f), ",")
RecordWords(f, i) == Split(Strip(f.data[i]), ",")
RecordNumbers(f) == 2..Len(f.data)

\* the offset of a header name (the last one of that name), from 1
OffsetOf(names, name) ==
    CHOOSE i \in 1..Len(names) :
        names[i] = name /\ \A j \in (i + 1)..Len(names) : names[j] # name

InHeader(f, name) == \E i \in 1..Len(HeaderNames(f)) : HeaderNames(f)[i] = name

IsNumericColumn(f, name) ==
    /\ InHeader(f, name)
    /\ \A i \in RecordNumbers(f) :
           /\ OffsetOf(HeaderNames(f), name) <= Len(RecordWords(f, i))
           /\ IsNumeric(RecordWords(f, i)[OffsetOf(HeaderNames(f), name)])

NumberAt(f, i, name) == Value(RecordWords(f, i)[OffsetOf(HeaderNames(f), name)])

RECURSIVE Product(_, _, _)
Product(f, i, names) ==
    IF names = <<>> THEN 1
    ELSE NumberAt(f, i, Head(names)) * Product(f, i, Tail(names))

RECURSIVE SumOfProducts(_, _, _)
SumOfProducts(f, n, names) ==
    IF n <= 1 THEN 0
    ELSE SumOfProducts(f, n - 1, names) + Product(f, n, names)

TotalCalled ==
    /\ call.op = "get_total_from_csv"
    /\ IsFile(fs[F])
    /\ fs[F].data # <<>>
    /\ Len(Split(call.arg.name, "*")) \in {1, 2}
    /\ \A i \in 1..Len(Split(call.arg.name, "*")) :
           IsNumericColumn(fs[F], Split(call.arg.name, "*")[i])

\* C14: get_total_from_csv returns the sum over the records of the named
\* column, or of the product of the two columns named as 'colA*colB'.
C14_TotalOfColumnOrProduct ==
    TotalCalled =>
        call.out = Returned(Num(SumOfProducts(fs[F], Len(fs[F].data),
                                              Split(call.arg.name, "*"))))

\* the same for a single column name
C14_TotalOfColumn ==
    (TotalCalled /\ ~Contains(call.arg.name, "*")) =>
        call.out = Returned(Num(SumOfProducts(fs[F], Len(fs[F].data),
                                              Split(call.arg.name, "*"))))

\* a product specification ends the process with exit()
C14_ProductExits ==
    (TotalCalled /\ Contains(call.arg.name, "*")) => call.out = Exit0

C14_TotalWitness ==
    /\ TotalCalled
    /\ ~Contains(call.arg.name, "*")
    /\ Len(fs[F].data) = MaxCsvLines
    /\ call.out = Returned(Num(3))

----------------------------------------------------------------------------
(* Properties of column_by_number *)

InRecord(o, n) == 1 <= n /\ n <= Len(o.words)

\* C15: column_by_number(n) returns field n, counted from 1, when the
\* current record has k fields and 1 <= n <= k; for every other n (0 and
\* negative numbers included) it reports an error and returns no field.
C15_ColumnByNumberChecked ==
    CsvCalled("column_by_number") =>
        IF InRecord(call.before, call.arg.number)
        THEN call.out = Returned(Str(call.before.words[call.arg.number]))
        ELSE call.out.outcome # "return"

\* the same for the numbers from 1 on
C15_ColumnByNumberFromOne ==
    (CsvCalled("column_by_number") /\ call.arg.number >= 1) =>
        IF InRecord(call.before, call.arg.number)
        THEN call.out = Returned(Str(call.before.words[call.arg.number]))
        ELSE call.out = Exit0

\* number 0 answers the last field of the record
C15_ZeroIsLast ==
    (CsvCalled("column_by_number") /\ call.arg.number = 0) =>
        call.out = Returned(Str(call.before.words[Len(call.before.words)]))

----------------------------------------------------------------------------
(* Properties of the column map *)

ReaderEntered == obj.kind = "CsvReader" /\ obj.pc \in {"entered", "exited"}

\* the map holds the header's names, each with its offset in the first line
MapFromFirstLine ==
    /\ \A e \in obj.column_index : InHeader(fs[F], e.k)
    /\ \A i \in 1..Len(HeaderNames(fs[F])) :
           /\ DictHas(obj.column_index, HeaderNames(fs[F])[i])
           /\ DictGet(obj.column_index, HeaderNames(fs[F])[i])
                  = OffsetOf(HeaderNames(fs[F]), HeaderNames(fs[F])[i]) - 1

\* what column(name) answered on a current record
ColumnAnswered ==
    CsvCalled("column") =>
        IF ~InHeader(fs[F], call.arg.name) THEN call.out = Raised
        ELSE HasField(call.before, call.arg.name) =>
                 call.out = Returned(Str(FieldOf(call.before, call.arg.name)))

\* C16: the column map is computed from the first line when the read scope
\* is entered and no later readlines, column, column_by_number,
\* column_present or build_key call changes it; column_present changes no
\* reader state; column(name) returns the record's field at the name's
\* offset for a header name and signals an error, with no value, otherwise.
C16_ColumnMapFixed ==
    /\ [](ReaderEntered => (MapFromFirstLine /\ ColumnAnswered))
    /\ [][ReaderEntered =>
              /\ obj'.column_index = obj.column_index
              /\ (call' # call /\ call'.op = "column_present") => obj' = obj
          ]_vars

C16_Witness ==
    /\ CsvCalled("column")
    /\ ~InHeader(fs[F], call.arg.name)
    /\ call.out = Raised
    /\ obj.cursor > 1
    /\ obj.column_index = ColumnIndex(<< <<"a">>, <<"a">> >>)

----------------------------------------------------------------------------
(* The CSV round trip *)

\* a header of non-empty names and records of as many fields as the header
WellFormedCsv(f) ==
    /\ IsFile(f)
    /\ f.data # <<>>
    /\ \A i \in 1..Len(f.data) : Strip(f.data[i]) = f.data[i]
    /\ \A i \in 1..Len(HeaderNames(f)) : HeaderNames(f)[i] # <<>>
    /\ \A i \in RecordNumbers(f) : Len(RecordWords(f, i)) = Len(HeaderNames(f))

Reserialized ==
    call.op = "reserialize" /\ call.out.outcome = "return" /\ WellFormedCsv(pre)

\* C17: a CSV file with a well-formed header and delimiter-free field
\* values (empty ones included), read with CsvReader and written again
\* with CsvWriter, header first and each record by add_values and new_line,
\* is identical to the input.
C17_RoundTrip == Reserialized => fs[F] = pre

\* the same when no record starts with an empty field
C17_RoundTripFirstFieldGiven ==
    (Reserialized /\ \A i \in RecordNumbers(pre) : RecordWords(pre, i)[1] # <<>>)
        => fs[F] = pre

C17_RoundTripWitness ==
    /\ Reserialized
    /\ Len(pre.data) = MaxCsvLines
    /\ Len(HeaderNames(pre)) = 2
    /\ \E i \in RecordNumbers(pre) : RecordWords(pre, i)[2] = <<>>
    /\ fs[F] = pre

----------------------------------------------------------------------------
(* Properties of CsvWriter *)

CsvWriterAt(pc) == obj.kind = "CsvWriter" /\ obj.pc = pc

HeaderGiven(o) == IF o.hasHeader THEN <<o.header>> ELSE <<>>

\* C18: inside the write scope no add_value, add_values or new_line call
\* writes to the file (it stays as open() truncated it); when the scope
\* closes the file holds the header, if one was given, then the completed
\* lines in the order of the new_line calls, and nothing else.
C18_CsvWriterBatches ==
    /\ [](CsvWriterAt("entered") => fs[F] = File(<<>>))
    /\ [](CsvWriterAt("exited") => fs[F] = File(HeaderGiven(obj) \o obj.lines))
    /\ [][CsvWriterAt("entered") =>
              /\ obj'.pc = "entered" => fs' = fs
              /\ obj'.lines # obj.lines =>
                     obj'.lines = Append(obj.lines, obj.current_line)
              /\ obj'.pc = "exited" => obj'.lines = obj.lines
          ]_vars

C18_Witness ==
    /\ CsvWriterAt("exited")
    /\ obj.hasHeader
    /\ obj.lines = << <<"x">>, <<>> >>
    /\ fs[F] = File(<<obj.header, <<"x">>, <<>> >>)

----------------------------------------------------------------------------
(* Properties of build_dict_from_csv, stated on the file's text *)

TextAt(f, i, name) == RecordWords(f, i)[OffsetOf(HeaderNames(f), name)]

\* the values of the columns in record i, joined with commas
Composite(f, i, columns) ==
    Join([n \in 1..Len(columns) |-> TextAt(f, i, columns[n])], <<",">>)

\* every record has a field for every one of the columns
ColumnsFilled(f, columns) ==
    \A n \in 1..Len(columns) :
        /\ InHeader(f, columns[n])
        /\ \A i \in RecordNumbers(f) :
               OffsetOf(HeaderNames(f), columns[n]) <= Len(RecordWords(f, i))

\* the last record holding the key of record i
LastWithKey(f, i, columns) ==
    CHOOSE j \in RecordNumbers(f) :
        /\ Composite(f, j, columns) = Composite(f, i, columns)
        /\ \A m \in (j + 1)..Len(f.data) :
               Composite(f, m, columns) # Composite(f, i, columns)

LastValueByKey(f, key_columns, value_columns) ==
    { [k |-> Composite(f, i, key_columns),
       v |-> Composite(f, LastWithKey(f, i, key_columns), value_columns)] :
          i \in RecordNumbers(f) }

DictCalled ==
    /\ call.op = "build_dict_from_csv"
    /\ IsFile(fs[F])
    /\ fs[F].data # <<>>
    /\ ColumnsFilled(fs[F], call.arg.columns)
    /\ ColumnsFilled(fs[F], call.arg.values)

\* C19: build_dict_from_csv maps each composite key (the joined key
\* columns) to the composite value (the joined value columns) of the last
\* record with that key, with one entry per distinct key of the file.
C19_LastValueByKey ==
    DictCalled =>
        call.out = Returned(Dict(LastValueByKey(fs[F], call.arg.columns,
                                                call.arg.values)))

FirstGiven(f, columns) ==
    columns # <<>> =>
        \A i \in RecordNumbers(f) : TextAt(f, i, columns[1]) # <<>>

\* the same when no record's first key or value column is empty
C19_LastValueByKeyFirstGiven ==
    (DictCalled /\ FirstGiven(fs[F], call.arg.columns)
                /\ FirstGiven(fs[F], call.arg.values)) =>
        call.out = Returned(Dict(LastValueByKey(fs[F], call.arg.columns,
                                                call.arg.values)))

\* two records of one key: the later record's value is the one kept
C19_OverwriteWitness ==
    /\ DictCalled
    /\ Len(fs[F].data) = MaxCsvLines
    /\ call.arg.columns = << <<"a">> >>
    /\ call.arg.values = << <<"b">> >>
    /\ call.out = Returned(Dict({[k |-> <<"1">>, v |-> <<>>]}))

----------------------------------------------------------------------------
(* generate_csv *)

RECURSIVE NatStr(_)
NatStr(n) ==
    IF n < Len(Digits) THEN <<Digits[n + 1]>>
    ELSE NatStr(n \div Len(Digits)) \o <<Digits[(n % Len(Digits)) + 1]>>

\* "%.2f" % x for a whole x
Fmt2(n) == NatStr(n) \o <<".", "0", "0">>

\* what follows a cell: a comma, or the end of the line after the column
\* equal to the last one
End(column, column_list) ==
    IF column # column_list[Len(column_list)] THEN <<",">> ELSE <<"\n">>

\* what follows a cell of the totals row, decided by the column's name
TotalsEnd(column, column_list) ==
    IF column.name # column_list[Len(column_list)].name THEN <<",">> ELSE <<"\n">>

\* totals[column_name] of the defaultdict(float)
TotalOf(totals, column_name) ==
    IF DictHas(totals, column_name) THEN DictGet(totals, column_name) ELSE 0

RECURSIVE HeaderLoop(_, _, _)
HeaderLoop(column_list, i, text) ==
    IF i > Len(column_list) THEN text
    ELSE HeaderLoop(column_list, i + 1,
                    text \o column_list[i].heading
                         \o End(column_list[i], column_list))

\* the cells of one record; g is the text printed, the totals and whether
\* nothing was raised
RECURSIVE RecordLoop(_, _, _, _)
RecordLoop(g, record, column_list, i) ==
    IF i > Len(column_list) \/ ~g.ok THEN g
    ELSE LET column == column_list[i]
             x == Float(Returned(Str(DictGet(record, column.name))))
         IN  IF ~DictHas(record, column.name) THEN [g EXCEPT !.ok = FALSE]
             ELSE IF column.type = "float"
             THEN IF x.outcome # "return" THEN [g EXCEPT !.ok = FALSE]
                  ELSE RecordLoop(
                           [text |-> g.text \o Fmt2(x.value.v[1])
                                            \o End(column, column_list),
                            totals |-> DictSet(g.totals, column.name,
                                               TotalOf(g.totals, column.name)
                                                   + x.value.v[1]),
                            ok |-> TRUE],
                           record, column_list, i + 1)
             ELSE RecordLoop(
                      [g EXCEPT !.text = g.text \o DictGet(record, column.name)
                                                \o End(column, column_list)],
                      record, column_list, i + 1)

RECURSIVE RecordsLoop(_, _, _)
RecordsLoop(g, record_list, column_list) ==
    IF record_list = <<>> \/ ~g.ok THEN g
    ELSE RecordsLoop(RecordLoop(g, Head(record_list), column_list, 1),
                     Tail(record_list), column_list)

RECURSIVE TotalsLoop(_, _, _)
TotalsLoop(g, column_list, i) ==
    IF i > Len(column_list) THEN g
    ELSE TotalsLoop(
             [g EXCEPT !.text =
                 g.text
                 \o (IF column_list[i].type = "float"
                     THEN Fmt2(TotalOf(g.totals, column_list[i].name))
                     ELSE IF column_list[i].name = column_list[1].name
                     THEN <<"T", "o", "t", "a", "l">>
                     ELSE <<>>)
                 \o TotalsEnd(column_list[i], column_list)],
             column_list, i + 1)

\* everything the body of the scope prints
GenerateCsvBody(arg) ==
    LET r == RecordsLoop([text |-> HeaderLoop(arg.column_list, 1, <<>>),
                          totals |-> {}, ok |-> TRUE],
                         arg.records, arg.column_list)
    IN  IF r.ok /\ arg.generate_totals THEN TotalsLoop(r, arg.column_list, 1)
        ELSE r

\* the lines of a text; a last line may lack its newline
TextLines(text) ==
    LET l == Split(text, "\n")
    IN  IF l[Len(l)] = <<>> THEN SubSeq(l, 1, Len(l) - 1) ELSE l

RECURSIVE WriteLines(_, _)
WriteLines(st, lines) ==
    IF lines = <<>> THEN st
    ELSE WriteLines(S3WriterWrite(st, Head(lines)), Tail(lines))

\* the outcome holds the text printed (generate_csv itself returns None)
GenerateCsv(st, arg, upOk) ==
    LET c == S3WriterInit(st, FALSE)
        e == S3WriterEnter(c)
        g == GenerateCsvBody(arg)
    IN  IF c.proc # "running" THEN NotOpened(c)
        ELSE IF e.proc # "running" THEN NotOpened(e)
        ELSE [st |-> S3WriterExit(WriteLines(e, TextLines(g.text)), ~g.ok, upOk),
              out |-> IF g.ok THEN Returned(Str(g.text)) ELSE Raised]

\* (column_name, column_heading, column_type)
ColumnDefs ==
    { [name |-> <<"a">>, heading |-> <<"A">>, type |-> "str"],
      [name |-> <<"b">>, heading |-> <<"B">>, type |-> "float"],
      [name |-> <<"c">>, heading |-> <<"C">>, type |-> "str"],
      [name |-> <<"a">>, heading |-> <<"D">>, type |-> "float"] }

GenColumnLists == UNION { [1..n -> ColumnDefs] : n \in 1..MaxColumns }

GenRecords ==
    { { [k |-> <<"a">>, v |-> a], [k |-> <<"b">>, v |-> <<"2">>],
        [k |-> <<"c">>, v |-> <<>>] } : a \in { <<"1">>, <<"3">>, <<"x">> } }

GenRecordLists == UNION { [1..n -> GenRecords] : n \in 0..MaxGenRecords }

InitGen ==
    /\ env = LocalEnv
    /\ fs \in [{F, Sav} -> {Absent, File(OldData)}]
    /\ fs[Sav] = Absent
    /\ remote = Absent
    /\ obj = NoObj
    /\ log = <<>>
    /\ proc = "running"
    /\ pre = Absent
    /\ cfgFile = NoCfgFile
    /\ cfgArgs = NoCfgArgs
    /\ cfgOut = NotCalled
    /\ call = NoCall

CallGenerateCsv ==
    /\ At("none", "none")
    /\ \E column_list \in GenColumnLists, record_list \in GenRecordLists,
          generate_totals \in BOOLEAN, upOk \in BOOLEAN :
           Ran("generate_csv",
               [NoArg EXCEPT !.column_list = column_list, !.records = record_list,
                             !.generate_totals = generate_totals],
               GenerateCsv(Cur, [NoArg EXCEPT !.column_list = column_list,
                                             !.records = record_list,
                                             !.generate_totals = generate_totals],
                           upOk))

NextGen ==
    \/ CallGenerateCsv
    \/ CallDaysInMonth

SpecGen == InitGen /\ [][NextGen]_vars

----------------------------------------------------------------------------
(* Properties of generate_csv *)

Line(cells) == Join(cells, <<",">>) \o <<"\n">>

HeaderRow(column_list) ==
    Line([i \in 1..Len(column_list) |-> column_list[i].heading])

RecordRow(record, column_list) ==
    Line([i \in 1..Len(column_list) |->
             IF column_list[i].type = "float"
             THEN Fmt2(Value(DictGet(record, column_list[i].name)))
             ELSE DictGet(record, column_list[i].name)])

RECURSIVE ColumnSum(_, _)
ColumnSum(record_list, name) ==
    IF record_list = <<>> THEN 0
    ELSE Value(DictGet(Head(record_list), name)) + ColumnSum(Tail(record_list), name)

TotalsRow(record_list, column_list) ==
    Line([i \in 1..Len(column_list) |->
             IF column_list[i].type = "float"
             THEN Fmt2(ColumnSum(record_list, column_list[i].name))
             ELSE IF i = 1 THEN <<"T", "o", "t", "a", "l">>
             ELSE <<>>])

RECURSIVE RecordRows(_, _)
RecordRows(record_list, column_list) ==
    IF record_list = <<>> THEN <<>>
    ELSE RecordRow(Head(record_list), column_list)
             \o RecordRows(Tail(record_list), column_list)

Rows(arg) ==
    HeaderRow(arg.column_list)
        \o RecordRows(arg.records, arg.column_list)
        \o (IF arg.generate_totals THEN TotalsRow(arg.records, arg.column_list)
            ELSE <<>>)

Generated == call.op = "generate_csv" /\ call.out.outcome = "return"

\* C20: generate_csv writes one header row, one row per record in record
\* order and, when totals are requested, one totals row; every row has one
\* field per column specification, in order, separated by commas and ended
\* once after the last column; in the totals row a float column holds the
\* column's sum, the first column the literal 'Total' and every other
\* non-float column nothing.
C20_RowsOfGenerateCsv ==
    Generated =>
        /\ call.out.value.v = Rows(call.arg)
        /\ fs[F] = File(TextLines(Rows(call.arg)))

DistinctNames(column_list) ==
    \A i, j \in 1..Len(column_list) :
        column_list[i].name = column_list[j].name => i = j

\* the same for column specifications of distinct names
C20_RowsOfDistinctColumns ==
    (Generated /\ DistinctNames(call.arg.column_list)) =>
        /\ call.out.value.v = Rows(call.arg)
        /\ fs[F] = File(TextLines(Rows(call.arg)))

C20_TotalsWitness ==
    /\ Generated
    /\ DistinctNames(call.arg.column_list)
    /\ Len(call.arg.column_list) = MaxColumns
    /\ Len(call.arg.records) = MaxGenRecords
    /\ fs[F] = File(<< <<"A", ",", "B">>, <<"1", ",", "2", ".", "0", "0">>,
                       <<"3", ",", "2", ".", "0", "0">>,
                       <<"T", "o", "t", "a", "l", ",", "4", ".", "0", "0">> >>)

----------------------------------------------------------------------------
(* Top-level and indented lines of a configuration file *)

\* a file of top-level lines and, under block keys only, lines that start
\* with one of the given whitespace characters (they may hold ':'); no
\* blank or comment lines; keys unique
IndentedCfg(lines, indents) ==
    /\ lines # <<>> /\ IsTopLevel(lines[1])
    /\ \A i \in 1..Len(lines) :
           \/ IsTopLevel(lines[i])
           \/ /\ Strip(lines[i]) # <<>> /\ lines[i][1] \in indents
              /\ \E j \in 1..(i - 1) :
                     /\ IsTopLevel(lines[j]) /\ InlineOf(lines[j]) = <<>>
                     /\ \A m \in (j + 1)..i : ~IsTopLevel(lines[m])
    /\ \A i, j \in 1..Len(lines) :
           (IsTopLevel(lines[i]) /\ IsTopLevel(lines[j])
                /\ KeyOf(lines[i]) = KeyOf(lines[j])) => i = j

\* the keys are those of the top-level lines and every indented line is a
\* member of the list of the key above it
KeysAreTopLevel ==
    /\ \A i \in KeyLines(cfgFile.lines, cfgArgs.config_key) :
           FormatValue(cfgFile.lines, i) # List(<<>>)
               => cfgOut = Returned(FormatValue(cfgFile.lines, i))
    /\ KeyLines(cfgFile.lines, cfgArgs.config_key) = {} =>
           cfgOut = ConfigLookup({}, cfgArgs.config_key,
                                 cfgArgs.suppress_key_not_found)

\* C24: a line starts a new key iff it holds ':' and does not start with a
\* space or a tab; a line that starts with whitespace, ':' or not, is a
\* member of the pending key's list and neither creates nor ends a key.
C24_KeyIffNotIndented ==
    (CfgCalled /\ IndentedCfg(cfgFile.lines, {" ", "\t"})) => KeysAreTopLevel

\* the same when the indentation is a space
C24_KeyIffNoLeadingSpace ==
    (CfgCalled /\ IndentedCfg(cfgFile.lines, {" "})) => KeysAreTopLevel

C24_SpaceWitness ==
    /\ CfgCalled
    /\ cfgFile.lines = << <<"k", ":">>, <<" ", "j", ":", "w">>, <<"j", ":">> >>
    /\ cfgArgs.config_key = <<"k">>
    /\ cfgOut = Returned(List(<< <<"j", ":", "w">> >>))

----------------------------------------------------------------------------
(* Exit statuses of the fatal error paths *)

\* the process was ended by exit(), whose status is 0
EndedWithStatusZero == proc = "exit0" \/ cfgOut = Exit0 \/ call.out = Exit0

\* C23: every fatal error path ends the process with a non-zero exit
\* status (a column or a column number not found, an invalid month, a
\* missing configuration key, service entry or credential source, a
\* resource not found, a listing failure).
C23_FatalExitsNonZero == ~EndedWithStatusZero

\* a column number past the record ends column_by_number with exit()
C23_ColumnNumberPath ==
    (CsvCalled("column_by_number")
        /\ call.arg.number > Len(call.before.words)) => call.out = Exit0

\* a column not in the header ends get_total_from_csv with exit()
C23_TotalColumnPath ==
    (call.op = "get_total_from_csv" /\ IsFile(fs[F])
        /\ ~InHeader(fs[F], call.arg.name)) => call.out = Exit0

\* an invalid month ends days_in_month with exit()
C23_InvalidMonthPath ==
    (call.op = "days_in_month" /\ call.arg.number \notin 1..12)
        => call.out = Exit0

\* a missing configuration key, unsuppressed, ends with exit()
C23_MissingKeyPath ==
    (KeyMissing /\ ~cfgArgs.suppress_key_not_found /\ cfgOut.outcome # "raised")
        => cfgOut = Exit0

----------------------------------------------------------------------------
(* The records delivered by readlines *)

RECURSIVE DeliveredUpTo(_)
DeliveredUpTo(n) ==
    IF n = 0 THEN <<>>
    ELSE IF log[n].op = "deliver" THEN Append(DeliveredUpTo(n - 1), log[n].key)
    ELSE DeliveredUpTo(n - 1)

\* the lines delivered so far by the generators of the reader, in order
Delivered == DeliveredUpTo(Len(log))

\* C25: within one read scope the header line is never delivered as a
\* record, each data line is delivered at most once and in file order, the
\* current record is the line delivered last, and once every line has been
\* delivered a further readlines call delivers none.
C25_SinglePass ==
    (ReaderEntered /\ call.op \notin {"get_total_from_csv", "build_dict_from_csv"})
    =>  /\ \A n \in 1..Len(Delivered) :
               /\ n + 1 <= Len(fs[F].data)
               /\ Delivered[n] = Strip(fs[F].data[n + 1])
        /\ IF Delivered = <<>> THEN ~HasAttr(obj, "words")
           ELSE /\ obj.current_line = Delivered[Len(Delivered)]
                /\ obj.words = Split(Delivered[Len(Delivered)], ",")

\* two generators: the second one, begun after the first delivered a line,
\* ended at once and the first went on to the last line
C25_Witness ==
    /\ ReaderEntered
    /\ Len(fs[F].data) = MaxCsvLines
    /\ Len(obj.gens) = Cardinality(GeneratorIds)
    /\ \A g \in 1..Len(obj.gens) : obj.gens[g] = [started |-> TRUE, buffer |-> <<>>]
    /\ call.op = "next" /\ call.arg.number = 1 /\ call.out.outcome = "return"
    /\ Len(Delivered) = MaxCsvLines - 1

----------------------------------------------------------------------------
(* FileManager *)

None == [t |-> "none", v |-> <<>>]

FileManagerInit(st, s3_only) ==
    Constructed(st, "FileManager", s3_only, FALSE, S3Initializer(env, s3_only))

\* get_s3_client reads self.access_key_id and self.secret_access_key
HasClient(o) == HasAttr(o, "access_key_id") /\ HasAttr(o, "secret_access_key")

\* a page of list_objects_v2: with 'Contents' (has) it holds keys
NoContents == [has |-> FALSE, keys |-> <<>>]

\* the pages the paginator fetches: up to the first one without 'Contents'
RECURSIVE Fetched(_)
Fetched(pages) ==
    IF pages = <<>> THEN <<>>
    ELSE IF ~Head(pages).has THEN <<Head(pages)>>
    ELSE <<Head(pages)>> \o Fetched(Tail(pages))

RECURSIVE Keys(_)
Keys(pages) ==
    IF pages = <<>> THEN <<>> ELSE Head(pages).keys \o Keys(Tail(pages))

RECURSIVE ListRequests(_, _, _)
ListRequests(st, n, prefix) ==
    IF n = 0 THEN st
    ELSE ListRequests(Logged(st, Ev("list", "ok", FALSE, prefix)), n - 1, prefix)

\* the names of the entries of the current directory
DirEntries(st) == {n \in DOMAIN st.fs : Exists(st.fs[n])}

\* files(prefix), consumed to its end; the bucket answers with pages, or
\* with an error (ok false); listing is the order os.listdir gives
Files(st, prefix, pages, ok, listing) ==
    IF HasAttr(st.obj, "bucket")
    THEN IF ~ok
         THEN [st |-> Ending(Logged(st, Ev("list", "error", FALSE, prefix)),
                             "raised"),
               out |-> Raised]
         ELSE [st |-> ListRequests(st, Len(Fetched(pages)), prefix),
               out |-> Returned(List(Keys(Fetched(pages))))]
    ELSE [st |-> st, out |-> Returned(List(listing))]

\* files_present(prefix); page is the answer of list_objects_v2
FilesPresent(st, prefix, page, ok) ==
    IF HasAttr(st.obj, "bucket")
    THEN IF ~ok
         THEN [st |-> Ending(Logged(st, Ev("list", "error", FALSE, prefix)),
                             "exit0"),
               out |-> Exit0]
         ELSE [st |-> Logged(st, Ev("list", "ok", FALSE, prefix)),
               out |-> Returned(Num(IF page.has THEN Len(page.keys) ELSE 0))]
    ELSE [st |-> st, out |-> Returned(None)]

\* delete that sends the request whether or not there are credentials
DeleteUnchecked(st, filename, ok) ==
    IF ok
    THEN [st |-> [Logged(st, Ev("delete", "ok", FALSE, <<filename>>))
                     EXCEPT !.remote = IF filename = F THEN Absent ELSE st.remote],
          out |-> Returned(None)]
    ELSE [st |-> Ending(Logged(st, Ev("delete", "error", FALSE, <<filename>>)),
                        "raised"),
          out |-> Raised]

\* delete(filename)
Delete(st, filename, ok) ==
    IF ~HasClient(st.obj) \/ ~HasAttr(st.obj, "bucket")
    THEN [st |-> Ending(st, "raised"), out |-> Raised]       \* AttributeError
    ELSE DeleteUnchecked(st, filename, ok)

----------------------------------------------------------------------------
(* Every component over a few environments, FileManager included *)

ObjectKeys == {"f", "g"}
Pages ==
    { NoContents, [has |-> TRUE, keys |-> <<"f">>],
      [has |-> TRUE, keys |-> <<"g", "f">>] }
PageLists == UNION { [1..n -> Pages] : n \in 1..MaxPages }
Prefixes == { <<>>, <<"f">> }

\* the orders in which os.listdir may give the names
Listings(names) ==
    { l \in [1..Cardinality(names) -> names] :
        \A i, j \in 1..Cardinality(names) : l[i] = l[j] => i = j }

EnvVcap ==
    [vcap |-> "s3", hasArn |-> TRUE, arn |-> <<"r", "/", "k">>,
     cfgExists |-> FALSE, cfg |-> {}]
EnvCfg ==
    [vcap |-> "absent", hasArn |-> FALSE, arn |-> <<>>,
     cfgExists |-> TRUE, cfg |-> CfgFull]

InitFm ==
    /\ env \in {LocalEnv, EnvVcap, EnvCfg}
    /\ fs \in [{F, Sav} -> {Absent, File(OldData)}]
    /\ fs[Sav] = Absent
    /\ remote \in {Absent, File(RemoteData)}
    /\ obj = NoObj
    /\ log = <<>>
    /\ proc = "running"
    /\ pre = Absent
    /\ cfgFile = NoCfgFile
    /\ cfgArgs = NoCfgArgs
    /\ cfgOut = NotCalled
    /\ call = NoCall

NewFileManager ==
    /\ At("none", "none")
    /\ \E s3_only \in BOOLEAN : Apply(FileManagerInit(Cur, s3_only))
    /\ UNCHANGED <<env, cfgVars, csvVars>>

FmFiles ==
    /\ At("FileManager", "constructed")
    /\ Len(log) < MaxRequests
    /\ \E prefix \in Prefixes, pages \in PageLists, ok \in BOOLEAN,
          listing \in Listings(DirEntries(Cur)) :
           Ran("files", [NoArg EXCEPT !.name = prefix, !.pages = pages],
               Files(Cur, prefix, pages, ok, listing))

FmFilesPresent ==
    /\ At("FileManager", "constructed")
    /\ Len(log) < MaxRequests
    /\ \E prefix \in Prefixes, page \in Pages, ok \in BOOLEAN :
           Ran("files_present", [NoArg EXCEPT !.name = prefix, !.pages = <<page>>],
               FilesPresent(Cur, prefix, page, ok))

FmDelete ==
    /\ At("FileManager", "constructed")
    /\ Len(log) < MaxRequests
    /\ \E filename \in ObjectKeys, ok \in BOOLEAN :
           Ran("delete", [NoArg EXCEPT !.name = <<filename>>],
               Delete(Cur, filename, ok))

NextFm ==
    \/ NewS3Reader
    \/ EnterS3Reader
    \/ ExitS3Reader
    \/ NewCsvReader
    \/ EnterCsvReader
    \/ CsvReadlinesCall
    \/ CsvReadlines
    \/ ExitCsvReader
    \/ NewS3Writer
    \/ EnterS3Writer
    \/ WriteS3Writer
    \/ ExitS3Writer
    \/ NewCsvWriter
    \/ EnterCsvWriter
    \/ CsvAddValue
    \/ CsvAddValues
    \/ CsvNewLine
    \/ ExitCsvWriter
    \/ NewFileManager
    \/ FmFiles
    \/ FmFilesPresent
    \/ FmDelete

SpecFm == InitFm /\ [][NextFm]_vars

----------------------------------------------------------------------------
(* Credentials and store mode of an instance *)

\* whether the instance holds a bucket, and its four credential values
Credentials(o) ==
    [ attrs |-> o.attrs \cap CredAttrs, access_key_id |-> o.access_key_id,
      bucket |-> o.bucket, secret_access_key |-> o.secret_access_key,
      kms_key_id |-> o.kms_key_id ]

ConstructorReturned == obj.pc \notin {"none", "construct_failed"}

\* C21: once the constructor has returned, no operation on the instance
\* (entering or leaving a scope, reading, writing, listing, counting,
\* deleting) changes whether it holds a bucket or the values of its access
\* key, secret, bucket and encryption key id.
C21_CredentialsFixed ==
    [][ConstructorReturned => Credentials(obj') = Credentials(obj)]_vars

C21_Witness ==
    /\ obj.kind = "FileManager"
    /\ HasAttr(obj, "bucket")
    /\ Ops("list") # {} /\ Ops("delete") # {}
    /\ Credentials(obj) = Credentials(call.before)

----------------------------------------------------------------------------
(* Properties of FileManager.files *)

FilesCalled == call.op = "files" /\ call.out.outcome # "raised"

\* only the last page of the listing may lack 'Contents'
EmptyPageLast(pages) == \A i \in 1..(Len(pages) - 1) : pages[i].has

\* C22: with a bucket, files(prefix) yields the name of every object of
\* every page of the listing, once each and in page order, and ends with
\* the pages; without a bucket it yields the entries of the current
\* directory whatever the prefix.
C22_FilesYieldsEveryPage ==
    FilesCalled =>
        IF HasAttr(obj, "bucket")
        THEN call.out = Returned(List(Keys(call.arg.pages)))
        ELSE /\ call.out.outcome = "return"
             /\ Len(call.out.value.v) = Cardinality(DirEntries(Cur))
             /\ {call.out.value.v[i] : i \in 1..Len(call.out.value.v)}
                    = DirEntries(Cur)

\* the same for listings whose pages before the last all hold objects
C22_FilesYieldsFullPages ==
    (FilesCalled /\ EmptyPageLast(call.arg.pages)) =>
        IF HasAttr(obj, "bucket")
        THEN call.out = Returned(List(Keys(call.arg.pages)))
        ELSE /\ call.out.outcome = "return"
             /\ Len(call.out.value.v) = Cardinality(DirEntries(Cur))
             /\ {call.out.value.v[i] : i \in 1..Len(call.out.value.v)}
                    = DirEntries(Cur)

C22_PagesWitness ==
    /\ FilesCalled
    /\ HasAttr(obj, "bucket")
    /\ Len(call.arg.pages) = MaxPages
    /\ call.out = Returned(List(<<"f", "g", "f">>))

----------------------------------------------------------------------------
(* Local-only mode *)

\* the requests that reached the bucket
StoreRequests ==
    Ops("head") \cup Ops("download") \cup Ops("upload") \cup Ops("list")
        \cup Ops("delete")

\* C26: a component without credentials (local-only mode) sends no head,
\* download, upload, list or delete request to the bucket, whatever
\* operations are applied to it.
C26_LocalOnlyNoRequests ==
    (obj.pc # "none" /\ ~HasAttr(obj, "bucket")) => StoreRequests = {}

\* a local-only FileManager was asked to delete: AttributeError, no request
C26_Witness ==
    /\ obj.kind = "FileManager"
    /\ ~HasAttr(obj, "bucket")
    /\ call.op = "delete" /\ call.out = Raised
    /\ call.before.pc = "constructed"
    /\ StoreRequests = {}

====
